---- MODULE Spec2Model ----
(***************************************************************************)
(* Model of the Kademlia routing sketch in src/main.cpp: class Bucket      *)
(* (a bounded contact list), class BucketList (160 buckets, one per power  *)
(* of two of the XOR distance) and class Node (identifier, distance,       *)
(* AddToList).                                                             *)
(*                                                                         *)
(* A uint256_t / cpp_dec_float_100 integer value is modelled exactly as    *)
(* the set of positions of its 1 bits (bit 0 is the least significant),    *)
(* because identifiers and distances range up to 2^160.                    *)
(***************************************************************************)
EXTENDS Integers, Sequences, FiniteSets

(***************************************************************************)
(* Program constants.                                                      *)
(***************************************************************************)
\* Bucket::k_, set by the constructor's initialiser list.
k_ == 20

\* enum { SHA1_HASH_SIZE = 160 } of BucketList.
SHA1_HASH_SIZE == 160

(***************************************************************************)
(* Bounds of the model.                                                    *)
(***************************************************************************)
\* Push is tried on every distance 2^i - r and 2^i + r with r <= MaxOffset.
MaxOffset == 4

\* The list of a bucket under test is made of at most MaxRuns runs of one
\* repeated identifier (the driver changes the identifier it inserts at
\* most MaxRuns - 1 times).
MaxRuns == 2

\* Put is called at most MaxFullPuts times more than a bucket can hold.
MaxFullPuts == 2

(***************************************************************************)
(* Exact unsigned arithmetic on sets of bit positions.                     *)
(***************************************************************************)
Zero == {}

MaxOf(S) == CHOOSE x \in S : \A y \in S : y <= x

\* The bits of a small natural number n < 2^16.
Uint(n) == {i \in 0..15 : (n \div (2 ^ i)) % 2 = 1}

\* operator^ of uint256_t.
Xor(a, b) == (a \ b) \cup (b \ a)

\* operator< of uint256_t: the highest bit in which a and b differ is b's.
Less(a, b) == \E i \in b \ a : \A j \in a \ b : j < i

Leq(a, b) == a = b \/ Less(a, b)

\* a + 2^i, carrying upwards (no wrap-around: cpp_dec_float_100 holds every
\* integer below 10^100 exactly).
RECURSIVE AddBit(_, _)
AddBit(a, i) == IF i \in a THEN AddBit(a \ {i}, i + 1) ELSE a \cup {i}

\* a + b.
RECURSIVE Plus(_, _)
Plus(a, b) ==
    IF b = {} THEN a
    ELSE LET i == MaxOf(b) IN Plus(AddBit(a, i), b \ {i})

\* static_cast<uint256_t>(pow(cpp_dec_float_100(2), cpp_dec_float_100(index))):
\* an integer power of two, exact in 100 decimal digits for index <= 160.
Pow2(index) == {index}

\* 2^i - r for 1 <= r <= 2^i: all ones below bit i, less r - 1.
Pow2Minus(i, r) == (0..(i - 1)) \ Uint(r - 1)

(***************************************************************************)
(* class Bucket.                                                           *)
(***************************************************************************)
\* Bucket::Bucket(covered_distance_from, covered_distance_to): an empty
\* contact list and the covered range.
Bucket(covered_distance_from, covered_distance_to) ==
    [ contacts_              |-> << >>,
      covered_distance_from_ |-> covered_distance_from,
      covered_distance_to_   |-> covered_distance_to ]

CoveredDistanceFrom(b) == b.covered_distance_from_

CoveredDistanceTo(b) == b.covered_distance_to_

(***************************************************************************)
(* class BucketList.                                                       *)
(***************************************************************************)
\* BucketList with the loop started at index 1: the ranges begin at 2.
BucketListFromOne ==
    [ i \in 1..SHA1_HASH_SIZE |-> Bucket(Pow2(i), Pow2(i + 1)) ]

\* BucketList with the loop run while index <= SHA1_HASH_SIZE: one bucket more.
BucketListOneMore ==
    [ i \in 1..(SHA1_HASH_SIZE + 1) |-> Bucket(Pow2(i - 1), Pow2(i)) ]

\* BucketList::BucketList(): for index = 0 .. SHA1_HASH_SIZE - 1 push back
\* Bucket(2^index, 2^(index + 1)).  Sequences are 1-based: the bucket of
\* level index is element index + 1.
BucketList ==
    [ i \in 1..SHA1_HASH_SIZE |-> Bucket(Pow2(i - 1), Pow2(i)) ]

\* static_cast<uint32_t>(log2(d)) for a cpp_dec_float_100 d >= 1, as the set
\* of values the build can print.  log2 is computed in decimal floating
\* point as log(d) / log(2) and then truncated.  When d is not a power of
\* two the quotient is at least 2^-161 away from an integer, far more than
\* the rounding error of 100 decimal digits, and the truncation is the
\* position of the highest bit.  When d = 2^j the exact result is the
\* integer j itself and the rounded quotient may fall just below it, so the
\* truncation is j or j - 1.
Log2Trunc(d) ==
    LET j == MaxOf(d)
    IN  IF d = Pow2(j) /\ j > 0 THEN {j - 1, j} ELSE {j}

(***************************************************************************)
(* class Node.                                                             *)
(***************************************************************************)
Nodes == {"node1", "node2"}

\* The raw data nodes are built from; the first is the string of main().
RawData ==
    { "The quick brown fox jumps over the lazy dog",
      "The quick brown fox jumps over the lazy cog",
      "abc",
      "" }

\* SHA1::update(raw_data) followed by SHA1::final(): the 40 hexadecimal
\* digits of the SHA-1 digest, most significant first.
SHA1(raw) ==
    CASE raw = "The quick brown fox jumps over the lazy dog" ->
           << 2, 15, 13, 4, 14, 1, 12, 6, 7, 10, 2, 13, 2, 8, 15, 12, 14, 13,
              8, 4, 9, 14, 14, 1, 11, 11, 7, 6, 14, 7, 3, 9, 1, 11, 9, 3, 14,
              11, 1, 2 >>
      [] raw = "The quick brown fox jumps over the lazy cog" ->
           << 13, 14, 9, 15, 2, 12, 7, 15, 13, 2, 5, 14, 1, 11, 3, 10, 15, 10,
              13, 3, 14, 8, 5, 10, 0, 11, 13, 1, 7, 13, 9, 11, 1, 0, 0, 13,
              11, 4, 11, 3 >>
      [] raw = "abc" ->
           << 10, 9, 9, 9, 3, 14, 3, 6, 4, 7, 0, 6, 8, 1, 6, 10, 11, 10, 3,
              14, 2, 5, 7, 1, 7, 8, 5, 0, 12, 2, 6, 12, 9, 12, 13, 0, 13, 8,
              9, 13 >>
      [] raw = "" ->
           << 13, 10, 3, 9, 10, 3, 14, 14, 5, 14, 6, 11, 4, 11, 0, 13, 3, 2,
              5, 5, 11, 15, 14, 15, 9, 5, 6, 0, 1, 8, 9, 0, 10, 15, 13, 8, 0,
              7, 0, 9 >>

\* ss >> temp_id on a stream in std::hex mode: the digits read as one
\* hexadecimal number; digit p of n weighs 16^(n - p).
HexToUint(digits) ==
    LET n == Len(digits)
    IN  { b \in 0..(4 * n - 1) :
            (digits[n - (b \div 4)] \div (2 ^ (b % 4))) % 2 = 1 }

\* Node::GenerateID(raw_data).
GenerateID(raw) == HexToUint(SHA1(raw))

VARIABLES
    bucket,        \* a Bucket used on its own
    thrown,        \* what the last Bucket::Put on it threw: "none" or "out_of_range"
    puts,          \* the number of calls of Bucket::Put made on it so far
    raw_data,      \* raw_data[n]: the constructor argument of node n
    id_,           \* id_[n]: Node::id_
    bucket_list_,  \* bucket_list_[n]: the list held by Node::bucket_list_
    distance_arg,  \* the distance a caller of BucketList::Push passes directly
    last_push      \* the last BucketList::Push: its owner, its distance, the level printed

vars == << bucket, thrown, puts, raw_data, id_, bucket_list_, distance_arg, last_push >>

\* CalculateDistance with | written for ^.
CalculateDistanceOr(n, other_node) == id_[n] \cup id_[other_node]

\* Node::CalculateDistance(other_node): id_ ^ other_node.GetID().
CalculateDistance(n, other_node) == Xor(id_[n], id_[other_node])

(***************************************************************************)
(* Initial states.                                                         *)
(***************************************************************************)
NoPush == [ called |-> FALSE, owner |-> "node1", distance |-> Zero, level |-> 0 ]

\* Node::Node(raw_data) for each node.
NodeInit(raw) ==
    /\ raw_data = raw
    /\ id_ = [ n \in Nodes |-> GenerateID(raw[n]) ]
    /\ bucket_list_ = [ n \in Nodes |-> BucketList ]
    /\ last_push = NoPush

\* Bucket::Bucket on the range of level 0.
BucketInit ==
    /\ bucket = Bucket(Pow2(0), Pow2(1))
    /\ thrown = "none"
    /\ puts = 0

\* main(): node1 and node2 are both built from the same string.
MainRawData == [ n \in Nodes |-> "The quick brown fox jumps over the lazy dog" ]

\* The distances Push is tried on directly: 0, and 2^i - r and 2^i + r
\* below 2^160.
DistanceSamples ==
    { d \in {Zero}
             \cup { Plus(Pow2(i), Uint(r)) :
                      i \in 0..(SHA1_HASH_SIZE - 1), r \in 0..MaxOffset }
             \cup { Pow2Minus(i, r) : i \in 3..SHA1_HASH_SIZE, r \in 1..MaxOffset } :
        Less(d, Pow2(SHA1_HASH_SIZE)) }

InitBucket == BucketInit /\ NodeInit(MainRawData) /\ distance_arg = Zero

\* Either the two nodes are built from any raw data, or they are the nodes of
\* main() and the distance passed to Push directly is any sample.
InitTable ==
    /\ BucketInit
    /\ \E raw \in [Nodes -> RawData] :
          /\ NodeInit(raw)
          /\ distance_arg \in DistanceSamples
          /\ raw = MainRawData \/ distance_arg = Zero

(***************************************************************************)
(* Bucket::Put.                                                            *)
(***************************************************************************)
\* Put with the size test written <= k_.
PutOffByOne(node_id) ==
    /\ IF Len(bucket.contacts_) <= k_
       THEN /\ bucket' = [bucket EXCEPT !.contacts_ = Append(@, node_id)]
            /\ thrown' = "none"
       ELSE /\ bucket' = bucket
            /\ thrown' = "out_of_range"
    /\ UNCHANGED << raw_data, id_, bucket_list_, distance_arg, last_push >>

\* Put that drops the contact of a full bucket without throwing.
PutSilentDrop(node_id) ==
    /\ IF Len(bucket.contacts_) < k_
       THEN bucket' = [bucket EXCEPT !.contacts_ = Append(@, node_id)]
       ELSE bucket' = bucket
    /\ thrown' = "none"
    /\ UNCHANGED << raw_data, id_, bucket_list_, distance_arg, last_push >>

\* Bucket::Put(node_id): push_back while the list holds fewer than k_
\* contacts, std::out_of_range otherwise.
Put(node_id) ==
    /\ IF Len(bucket.contacts_) < k_
       THEN /\ bucket' = [bucket EXCEPT !.contacts_ = Append(@, node_id)]
            /\ thrown' = "none"
       ELSE /\ bucket' = bucket
            /\ thrown' = "out_of_range"
    /\ UNCHANGED << raw_data, id_, bucket_list_, distance_arg, last_push >>

\* The number of runs of one repeated identifier in a contact list.
Runs(s) ==
    IF s = << >> THEN 0
    ELSE 1 + Cardinality({ i \in 1..(Len(s) - 1) : s[i] # s[i + 1] })

\* The identifiers the driver inserts.
ContactIds == { GenerateID(raw) : raw \in RawData }

NextBucket ==
    \E node_id \in ContactIds :
        /\ Runs(Append(bucket.contacts_, node_id)) <= MaxRuns
        /\ puts < k_ + MaxFullPuts
        /\ Put(node_id)
        /\ puts' = puts + 1

(***************************************************************************)
(* BucketList::Push and Node::AddToList.                                   *)
(***************************************************************************)
\* BucketList::Push(other_node, distance) on the list of node n: d is
\* distance + 4 and the level printed is static_cast<uint32_t>(log2(d)).
\* Nothing else is done: no bucket is looked up and Bucket::Put is not
\* called.
Push(n, other_node, distance) ==
    /\ \E lv \in Log2Trunc(Plus(distance, Uint(4))) :
          last_push' = [ called |-> TRUE, owner |-> n,
                         distance |-> distance, level |-> lv ]
    /\ UNCHANGED << bucket, thrown, puts, raw_data, id_, bucket_list_, distance_arg >>

\* Node::AddToList(other_node).
AddToList(n, other_node) ==
    Push(n, other_node, CalculateDistance(n, other_node))

NextTable ==
    \/ \E n \in Nodes, other_node \in Nodes : AddToList(n, other_node)
    \/ \E n \in Nodes : Push(n, n, distance_arg)

(***************************************************************************)
(* Specifications.                                                         *)
(***************************************************************************)
\* A bucket on its own, driven through Put.
SpecBucket == InitBucket /\ [][NextBucket]_vars

\* Two nodes, each with its bucket list, driven through AddToList and Push.
SpecTable == InitTable /\ [][NextTable]_vars

(***************************************************************************)
(* Properties.                                                             *)
(***************************************************************************)
\* d lies in the half-open range [from, to) of bucket b.
InRange(b, d) == Leq(CoveredDistanceFrom(b), d) /\ Less(d, CoveredDistanceTo(b))

\* The positions of the buckets of list bl whose range holds d.
Covering(bl, d) == { i \in DOMAIN bl : InRange(bl[i], d) }

\* Every range of bl is non-empty and ends where the next one begins.
Contiguous(bl) ==
    /\ \A i \in DOMAIN bl : Less(CoveredDistanceFrom(bl[i]), CoveredDistanceTo(bl[i]))
    /\ \A i \in 1..(Len(bl) - 1) :
          CoveredDistanceTo(bl[i]) = CoveredDistanceFrom(bl[i + 1])

\* The distances of a state: the one passed to Push directly and those
\* between the nodes.
StateDistances ==
    {distance_arg} \cup { CalculateDistance(a, b) : a \in Nodes, b \in Nodes }

\* The number of entries of contact list s that are node_id.
Count(s, node_id) == Cardinality({ i \in DOMAIN s : s[i] = node_id })

\* C1: after any sequence of Bucket::Put the contact list holds at most
\* k_ = 20 entries, and a Put on a bucket that already holds k_ entries
\* leaves the number of entries as it was.
C1_BucketNeverExceedsK ==
    /\ [](Len(bucket.contacts_) <= k_)
    /\ [][ Len(bucket.contacts_) = k_ =>
              Len(bucket'.contacts_) = Len(bucket.contacts_) ]_vars

\* C1 witness: more Puts were made than the bucket holds, the last on a
\* bucket holding k_ contacts.
C1_Witness == puts > k_ /\ thrown = "out_of_range" /\ Len(bucket.contacts_) = k_

C3_RecordSeenInserts ==
    [][ \A n \in Nodes, other_node \in Nodes :
          LET bl  == bucket_list_[n]
              hit == Covering(bl, CalculateDistance(n, other_node))
          IN  ( /\ AddToList(n, other_node)
                /\ hit # {}
                /\ \A i \in hit :
                      /\ Len(bl[i].contacts_) < k_
                      /\ Count(bl[i].contacts_, id_[other_node]) = 0 )
              => \E i \in hit :
                    /\ bucket_list_'[n][i].contacts_ =
                          Append(bl[i].contacts_, id_[other_node])
                    /\ \A j \in DOMAIN bl \ {i} : bucket_list_'[n][j] = bl[j] ]_vars

\* C4 as stated: no Put ever throws, whatever the bucket holds.
C4_PutNeverThrows == thrown = "none"

\* C4 amended: a Put on a bucket that already holds k_ contacts throws
\* std::out_of_range to its caller and leaves the bucket as it was; a Put
\* on a bucket holding fewer than k_ contacts completes normally.
C4_PutThrowsExactlyWhenFull ==
    [][ IF Len(bucket.contacts_) >= k_
        THEN thrown' = "out_of_range" /\ bucket' = bucket
        ELSE thrown' = "none" ]_vars

\* C4 witness: a Put on a full bucket holding two different identifiers threw.
C4_Witness ==
    /\ thrown = "out_of_range"
    /\ puts = k_ + 2
    /\ Len(bucket.contacts_) >= k_
    /\ Runs(bucket.contacts_) = 2

\* C5: a Put of an identifier the bucket already holds does not change the
\* number of entries, leaves exactly one entry for the identifier and leaves
\* it at the tail of the list.
C5_ReobserveKeepsCount ==
    [][ \A node_id \in ContactIds :
          ( Put(node_id) /\ Count(bucket.contacts_, node_id) > 0 )
          => /\ Len(bucket'.contacts_) = Len(bucket.contacts_)
             /\ Count(bucket'.contacts_, node_id) = 1
             /\ bucket'.contacts_[Len(bucket'.contacts_)] = node_id ]_vars

\* C6: CalculateDistance is symmetric, a node is at distance 0 from itself,
\* and two nodes built from the same raw data are at distance 0.
C6_DistanceSymmetric ==
    \A a \in Nodes, b \in Nodes :
        /\ CalculateDistance(a, b) = CalculateDistance(b, a)
        /\ CalculateDistance(a, a) = Zero
        /\ raw_data[a] = raw_data[b] => CalculateDistance(a, b) = Zero

\* C6 witness: AddToList ran between two nodes of different identifiers.
C6_Witness ==
    \E a \in Nodes, b \in Nodes :
        /\ raw_data[a] # raw_data[b]
        /\ last_push.called
        /\ last_push.owner = a
        /\ last_push.distance = CalculateDistance(a, b)
        /\ last_push.distance # Zero

C9_LevelIsBucketIndex ==
    ( /\ last_push.called
      /\ Leq(Uint(1), last_push.distance)
      /\ Less(last_push.distance, Pow2(SHA1_HASH_SIZE)) )
    => LET bl == bucket_list_[last_push.owner]
       IN  /\ last_push.level + 1 \in DOMAIN bl
           /\ InRange(bl[last_push.level + 1], last_push.distance)

\* C10: for a distance d with 0 <= d < 2^160, the level Push computes is a
\* valid index of the bucket list, that is, lies in 0 .. SHA1_HASH_SIZE - 1.
C10_LevelIsValidIndex ==
    ( last_push.called /\ Less(last_push.distance, Pow2(SHA1_HASH_SIZE)) )
    => last_push.level \in 0..(SHA1_HASH_SIZE - 1)

====
